---- MODULE Spec2Model ----
(***************************************************************************)
(* Model of landslideml.model.MlModel: construction (input verification,   *)
(* dataset load, train/test split, classifier creation), setup             *)
(* (reconfiguration), evaluate_model and predict.                          *)
(*                                                                         *)
(* The scikit-learn classifiers, train_test_split and classification_report*)
(* are external; they are represented by deterministic stand-ins that keep *)
(* what the wrapper observes of them: which keywords a constructor takes,  *)
(* that fit validates hyperparameter values, that predict on an unfitted   *)
(* estimator raises NotFittedError, that the predictions depend on the     *)
(* hyperparameters, and the key set of the report dictionary.              *)
(***************************************************************************)
EXTENDS Integers, Sequences, FiniteSets, TLC

VARIABLES
    phase,            \* "new" | "constructed" | "failed" (constructor raised)
    type,             \* self.type
    features_list,    \* self.features_list
    target_column,    \* self.target_column
    test_size,        \* self.test_size
    kwargs,           \* self.kwargs
    model,            \* self.model
    dataset,          \* self.dataset
    x_train, x_test, y_train, y_test,
    y_pred,           \* self.y_pred
    report,           \* self.report
    last_prediction,  \* self.last_prediction
    call,             \* the last call made on the object and its arguments
    outcome,          \* what that call raised, warned, printed and returned
    reconfigured      \* history: some setup call has returned without raising

vars == <<phase, type, features_list, target_column, test_size, kwargs, model,
          dataset, x_train, x_test, y_train, y_test, y_pred, report,
          last_prediction, call, outcome, reconfigured>>

splitVars == <<dataset, x_train, x_test, y_train, y_test>>
specVars  == <<type, features_list, target_column, test_size>>

-----------------------------------------------------------------------------
(* Bounds *)

\* most keys one setup(**kwargs) call passes
MaxKwargs == 2
\* most classifier instances one MlModel creates (construction creates the first)
MaxInstances == 3

-----------------------------------------------------------------------------
(* Python values *)

\* None and optional attributes: <<>> is None, <<v>> is the value v
None == <<>>
Some(v) == <<v>>
IsNone(o) == o = <<>>
Get(o) == o[1]

PyStr(s)   == [t |-> "str",   s |-> s,  n |-> 0]
PyInt(n)   == [t |-> "int",   s |-> "", n |-> n]
PyBool(b)  == [t |-> "bool",  s |-> "", n |-> IF b THEN 1 ELSE 0]
\* a float, held in tenths: PyFloat(2) is 0.2
PyFloat(n) == [t |-> "float", s |-> "", n |-> n]
PyNone     == [t |-> "NoneType", s |-> "", n |-> 0]
\* a list argument: isList is FALSE for a non-list passed in its place
PyList(items) == [isList |-> TRUE,  items |-> items]
NotAList      == [isList |-> FALSE, items |-> <<>>]

\* exceptions: the class, the message, and the keys the message names
NoErr == [exc |-> "none", msg |-> "", keys |-> {}]
Raise(exc, msg) == [exc |-> exc, msg |-> msg, keys |-> {}]
RaiseKeys(exc, msg, keys) == [exc |-> exc, msg |-> msg, keys |-> keys]

-----------------------------------------------------------------------------
(* Hyperparameter dictionaries *)

Keys == {"n_estimators", "max_depth", "C"}
HyperValues == {0, 1, 2}
\* marks a key the dict does not hold
Absent == -1
Dicts == [Keys -> HyperValues \cup {Absent}]
EmptyDict == [k \in Keys |-> Absent]
DictKeys(d) == {k \in Keys : d[k] # Absent}
\* a faulty dict.update that replaces the dict by the new one
UpdateReplacing(d, e) == e
\* dict.update
Update(d, e) == [k \in Keys |-> IF e[k] # Absent THEN e[k] ELSE d[k]]

-----------------------------------------------------------------------------
(* The file system and the dataset file *)

\* the one dataset file that exists
TrainingCsv == "./testcase_data/training.csv"
\* os.path.isfile
IsFile(path) == path = TrainingCsv

\* pd.read_csv(filepath, header=0): the header's columns and the rows
Columns == {"alti", "slope", "label"}
DatasetFile ==
    << [alti |-> 1, slope |-> 0, label |-> 1],
       [alti |-> 0, slope |-> 1, label |-> 0],
       [alti |-> 2, slope |-> 1, label |-> 0],
       [alti |-> 1, slope |-> 1, label |-> 1] >>

\* dataset[features_list]: the rows cut down to the listed columns, in order
SelectColumns(rows, items) ==
    [r \in 1..Len(rows) |-> [i \in 1..Len(items) |-> rows[r][items[i].s]]]
\* dataset[target_column]
SelectColumn(rows, name) == [r \in 1..Len(rows) |-> rows[r][name]]

\* train_test_split(x, y, test_size=..., random_state=42): the seed fixes the
\* shuffle; the first ceil(test_size * n) shuffled rows are the test part
Shuffle42 == <<3, 1, 4, 2>>
NTest(n, tenths) == (n * tenths + 9) \div 10
TestPart(s, tenths) ==
    [i \in 1..NTest(Len(s), tenths) |-> s[Shuffle42[i]]]
TrainPart(s, tenths) ==
    [i \in 1..(Len(s) - NTest(Len(s), tenths)) |->
        s[Shuffle42[NTest(Len(s), tenths) + i]]]

-----------------------------------------------------------------------------
(* The classifiers *)

VALID_MODELS == {"RandomForest", "SVM", "GBM"}

\* the keyword parameters the classifier of a kind takes: the keys of
\* model.get_params() and the keywords its constructor accepts
AcceptedParams(kind) ==
    IF kind = "SVM" THEN {"C"} ELSE {"n_estimators", "max_depth"}

\* RandomForestClassifier(**kwargs) / SVC(**kwargs) /
\* GradientBoostingClassifier(**kwargs): a new, unfitted estimator;
\* the constructor stores the values without validating them
NewClassifier(kind, params, id) ==
    [id |-> id, kind |-> kind, params |-> params, trained |-> None]
\* an unexpected keyword makes the constructor raise TypeError
NewClassifierError(kind, params) ==
    IF DictKeys(params) \subseteq AcceptedParams(kind) THEN NoErr
    ELSE RaiseKeys("TypeError", "unexpected keyword argument",
                   DictKeys(params) \ AcceptedParams(kind))

IsFitted(clf) == ~IsNone(clf.trained)

\* estimator.fit(x, y) validates the hyperparameter values (each must be
\* at least 1 here), then the data (at least one feature column)
FitError(clf, x, y) ==
    IF \E k \in DictKeys(clf.params) : clf.params[k] < 1
    THEN RaiseKeys("InvalidParameterError", "invalid parameter value",
                   {k \in DictKeys(clf.params) : clf.params[k] < 1})
    ELSE IF \E r \in 1..Len(x) : Len(x[r]) = 0
    THEN Raise("ValueError", "at least one feature is required")
    ELSE NoErr
Fit(clf, x, y) == [clf EXCEPT !.trained = Some(<<x, y>>)]

RECURSIVE SumValues(_, _)
SumValues(d, ks) ==
    IF ks = {} THEN 0
    ELSE LET k == CHOOSE q \in ks : TRUE
         IN  (IF d[k] = Absent THEN 0 ELSE d[k]) + SumValues(d, ks \ {k})

\* what a fitted estimator answers for the rows X: a function of the rows
\* and of the hyperparameters it was built with
ClfPredict(clf, X) ==
    [r \in 1..Len(X) |-> (X[r][1] + SumValues(clf.params, Keys)) % 2]

\* the input of predict(data): a feature frame, or something that is none
\* (the example workflow passes a file path)
Frame(rows) == [isFrame |-> TRUE,  rows |-> rows]
NotAFrame   == [isFrame |-> FALSE, rows |-> <<>>]
\* estimator.predict(data): NotFittedError on an unfitted estimator, then
\* ValueError on data that does not have the features it was fitted on
PredictError(clf, data) ==
    IF ~IsFitted(clf) THEN Raise("NotFittedError", "instance is not fitted yet")
    ELSE IF \/ ~data.isFrame
            \/ \E r \in 1..Len(data.rows) :
                  Len(data.rows[r]) # Len(Get(clf.trained)[1][1])
    THEN Raise("ValueError", "data does not match the fitted features")
    ELSE NoErr

-----------------------------------------------------------------------------
(* classification_report(y_true, y_pred, output_dict=True) *)

LabelName(l) == IF l = 0 THEN "0" ELSE "1"
Labels(y_true, p) ==
    {y_true[i] : i \in 1..Len(y_true)} \cup {p[i] : i \in 1..Len(p)}
AggregateKeys == {"accuracy", "macro avg", "weighted avg"}
\* a faulty report that names the accuracy row "micro avg"
classification_report_micro(y_true, p) ==
    LET hit == Cardinality({i \in 1..Len(y_true) : y_true[i] = p[i]})
    IN  [k \in {"micro avg", "macro avg", "weighted avg"} |->
            [tp |-> hit, pp |-> Len(p), support |-> Len(y_true)]]

\* each entry keeps the counts its scores are ratios of: the correct
\* predictions (tp), the predictions (pp) and the true rows (support)
classification_report(y_true, p) ==
    LET idx == 1..Len(y_true)
        tp(l) == Cardinality({i \in idx : y_true[i] = l /\ p[i] = l})
        pp(l) == Cardinality({i \in idx : p[i] = l})
        su(l) == Cardinality({i \in idx : y_true[i] = l})
        hit   == Cardinality({i \in idx : y_true[i] = p[i]})
        names == {LabelName(l) : l \in Labels(y_true, p)}
    IN  [k \in names \cup AggregateKeys |->
            IF k \in AggregateKeys
            THEN [tp |-> hit, pp |-> Len(p), support |-> Len(y_true)]
            ELSE LET l == CHOOSE m \in Labels(y_true, p) : LabelName(m) = k
                 IN  [tp |-> tp(l), pp |-> pp(l), support |-> su(l)]]

-----------------------------------------------------------------------------
(* Calls and their outcomes *)

NoCtorArgs ==
    [model_type |-> PyNone, filepath |-> PyNone, target_column |-> PyNone,
     features_list |-> NotAList, test_size |-> PyNone, kwargs |-> EmptyDict]
NoCall ==
    [op |-> "none", ctor |-> NoCtorArgs, kwargs |-> EmptyDict,
     kw |-> "", val |-> PyNone, data |-> NotAFrame]
CtorCall(a)       == [NoCall EXCEPT !.op = "__init__", !.ctor = a]
SetupCall(kw)     == [NoCall EXCEPT !.op = "setup", !.kwargs = kw]
EvaluateCall(k, v) == [NoCall EXCEPT !.op = "evaluate_model", !.kw = k, !.val = v]
PredictCall(d)    == [NoCall EXCEPT !.op = "predict", !.data = d]

\* err: the exception raised (NoErr when the call returned); warned: a
\* warning was emitted; printed: the text report was printed; report, pred:
\* the value returned
NoOutcome ==
    [err |-> NoErr, warned |-> FALSE, printed |-> FALSE,
     report |-> None, pred |-> None]
Raised(e) == [NoOutcome EXCEPT !.err = e]

-----------------------------------------------------------------------------
(* The arguments the calls are made with *)

ModelTypeArgs == {PyStr("RandomForest"), PyStr("SVM"), PyStr("GBM"), PyStr("KNN")}
FilepathArgs  == {PyStr(TrainingCsv), PyStr("./missing.csv"), PyNone}
TargetArgs    == {PyStr("label"), PyStr(""), PyInt(5)}
FeaturesArgs  ==
    {PyList(<<PyStr("alti"), PyStr("slope")>>),
     PyList(<<>>), PyList(<<PyStr("alti"), PyInt(7)>>),
     PyList(<<PyStr("aspect")>>), NotAList}
TestSizeArgs  == {PyFloat(5), PyFloat(0), PyFloat(10), PyInt(1)}
InitKwargsArgs ==
    {EmptyDict, [EmptyDict EXCEPT !["n_estimators"] = 1],
     [EmptyDict EXCEPT !["C"] = 2]}
CtorArgs ==
    [model_type : ModelTypeArgs, filepath : FilepathArgs,
     target_column : TargetArgs, features_list : FeaturesArgs,
     test_size : TestSizeArgs, kwargs : InitKwargsArgs]

SetupArgs == {d \in Dicts : Cardinality(DictKeys(d)) <= MaxKwargs}
EvaluateKeywords == {"plot", "show"}
EvaluateValues == {PyBool(TRUE), PyBool(FALSE), PyInt(2)}
PredictArgs ==
    {Frame(<< <<2, 1>>, <<0, 0>>, <<1, 0>> >>), Frame(<< <<1>>, <<0>> >>),
     NotAFrame}

-----------------------------------------------------------------------------
(* MlModel.__init__ *)

verify_input(model_type, filepath, target, features, size) ==
    IF ~(model_type.t = "str" /\ model_type.s \in VALID_MODELS)
    THEN Raise("ValueError", "Model type not supported.")
    ELSE IF filepath.t # "str"
    THEN Raise("TypeError", "stat: path should be string")
    ELSE IF ~IsFile(filepath.s)
    THEN Raise("FileNotFoundError", "File does not exist.")
    ELSE IF target.t # "str"
    THEN Raise("TypeError", "Target must be a string.")
    ELSE IF ~features.isList
    THEN Raise("TypeError", "Features must be a list.")
    ELSE IF ~(\A i \in 1..Len(features.items) : features.items[i].t = "str")
    THEN Raise("TypeError", "Features must be a list of strings.")
    ELSE IF size.t # "float"
    THEN Raise("TypeError", "Test size must be a float.")
    ELSE IF size.n <= 0 \/ size.n >= 10
    THEN Raise("ValueError", "Test size must be between 0 and 1.")
    ELSE NoErr

\* __preprocess_data: a column the dataset does not have is a KeyError
preprocess_error(features, target) ==
    IF \E i \in 1..Len(features.items) : features.items[i].s \notin Columns
    THEN Raise("KeyError", "feature column not in the dataset")
    ELSE IF target.s \notin Columns
    THEN Raise("KeyError", "target column not in the dataset")
    ELSE NoErr

Init ==
    /\ phase = "new"
    /\ type = ""
    /\ features_list = NotAList
    /\ target_column = PyNone
    /\ test_size = PyNone
    /\ kwargs = EmptyDict
    /\ model = None
    /\ dataset = None
    /\ x_train = <<>> /\ x_test = <<>> /\ y_train = <<>> /\ y_test = <<>>
    /\ y_pred = None
    /\ report = None
    /\ last_prediction = None
    /\ call = NoCall
    /\ outcome = NoOutcome
    /\ reconfigured = FALSE

\* a.kwargs is the dict the caller passes under the keyword kwargs
\* (self.kwargs = kwargs['kwargs'])
Construct(a) ==
    /\ phase = "new"
    /\ call' = CtorCall(a)
    /\ UNCHANGED reconfigured
    /\ y_pred' = None /\ report' = None /\ last_prediction' = None
    /\ LET verr == verify_input(a.model_type, a.filepath, a.target_column,
                                a.features_list, a.test_size)
           perr == preprocess_error(a.features_list, a.target_column)
           merr == NewClassifierError(a.model_type.s, a.kwargs)
           x    == SelectColumns(DatasetFile, a.features_list.items)
           y    == SelectColumn(DatasetFile, a.target_column.s)
       IN
       IF verr # NoErr
       THEN /\ phase' = "failed"
            /\ outcome' = Raised(verr)
            /\ UNCHANGED <<specVars, kwargs, model, splitVars>>
       ELSE
         /\ type' = a.model_type.s
         /\ target_column' = a.target_column
         /\ features_list' = a.features_list
         /\ test_size' = a.test_size
         /\ kwargs' = a.kwargs
         /\ dataset' = Some(DatasetFile)
         /\ IF perr # NoErr
            THEN /\ phase' = "failed"
                 /\ outcome' = Raised(perr)
                 /\ UNCHANGED <<model, x_train, x_test, y_train, y_test>>
            ELSE
              /\ x_train' = TrainPart(x, a.test_size.n)
              /\ x_test'  = TestPart(x, a.test_size.n)
              /\ y_train' = TrainPart(y, a.test_size.n)
              /\ y_test'  = TestPart(y, a.test_size.n)
              /\ IF merr # NoErr
                 THEN /\ phase' = "failed"
                      /\ outcome' = Raised(merr)
                      /\ UNCHANGED model
                 ELSE /\ phase' = "constructed"
                      /\ outcome' = NoOutcome
                      /\ model' = Some(NewClassifier(a.model_type.s, a.kwargs, 1))

-----------------------------------------------------------------------------
(* MlModel.setup *)

\* a faulty key check that finds nothing wrong
invalid_kwargs_unchecked(kw) == {}
\* the keys of the call that self.model.get_params() does not have
invalid_kwargs(kw) ==
    {k \in DictKeys(kw) : k \notin AcceptedParams(Get(model).kind)}

\* a faulty rejection that stores the accepted keys of the call, then raises
setup_reject_partial(kw) ==
    /\ outcome' = Raised(RaiseKeys("ValueError", "Invalid kwargs found",
                                   DictKeys(kw) \ AcceptedParams(type)))
    /\ kwargs' = Update(kwargs, [k \in Keys |->
                     IF k \in AcceptedParams(type) THEN kw[k] ELSE Absent])
    /\ UNCHANGED <<model, y_pred, reconfigured>>
\* raise ValueError(f"Invalid kwargs found: ...") before anything is touched
setup_reject(kw) ==
    /\ outcome' = Raised(RaiseKeys("ValueError", "Invalid kwargs found",
                                   invalid_kwargs(kw)))
    /\ UNCHANGED <<kwargs, model, y_pred, reconfigured>>

\* self.kwargs.update(kwargs); self.model = self.__initialize_model();
\* self.model.fit(x_train, y_train); self.y_pred = self.model.predict(x_test):
\* an exception leaves the assignments made before it in place
setup_apply(kw) ==
    LET merged == Update(kwargs, kw)
        merr   == NewClassifierError(type, merged)
        fresh  == NewClassifier(type, merged, Get(model).id + 1)
        ferr   == FitError(fresh, x_train, y_train)
        fitted == Fit(fresh, x_train, y_train)
    IN  /\ Get(model).id < MaxInstances
        /\ kwargs' = merged
        /\ IF merr # NoErr
           THEN /\ outcome' = Raised(merr)
                /\ UNCHANGED <<model, y_pred, reconfigured>>
           ELSE IF ferr # NoErr
           THEN /\ model' = Some(fresh)
                /\ outcome' = Raised(ferr)
                /\ UNCHANGED <<y_pred, reconfigured>>
           ELSE /\ model' = Some(fitted)
                /\ y_pred' = Some(ClfPredict(fitted, x_test))
                /\ outcome' = NoOutcome
                /\ reconfigured' = TRUE

setup(kw) ==
    /\ phase = "constructed"
    /\ call' = SetupCall(kw)
    /\ IF invalid_kwargs(kw) # {} THEN setup_reject(kw) ELSE setup_apply(kw)
    /\ UNCHANGED <<phase, specVars, splitVars, report, last_prediction>>

-----------------------------------------------------------------------------
(* MlModel.evaluate_model(self, *, plot=False) *)

\* plot is True
IsTrue(v) == v.t = "bool" /\ v.n = 1

evaluate_model(kw, val) ==
    /\ phase = "constructed"
    /\ call' = EvaluateCall(kw, val)
    /\ UNCHANGED <<phase, specVars, splitVars, kwargs, model, last_prediction,
                   reconfigured>>
    /\ IF kw # "plot"
       THEN \* a keyword the signature does not have
            /\ outcome' = Raised(Raise("TypeError", "unexpected keyword argument"))
            /\ UNCHANGED <<y_pred, report>>
       ELSE
         LET fallback == IsNone(y_pred)
             perr == IF fallback THEN PredictError(Get(model), Frame(x_test))
                     ELSE NoErr
             preds == IF fallback THEN ClfPredict(Get(model), x_test)
                      ELSE Get(y_pred)
             rep == classification_report(y_test, preds)
         IN
         IF perr # NoErr
         THEN /\ outcome' = [Raised(perr) EXCEPT !.warned = TRUE]
              /\ UNCHANGED <<y_pred, report>>
         ELSE /\ y_pred' = Some(preds)
              /\ report' = Some(rep)
              /\ outcome' = [NoOutcome EXCEPT !.warned = fallback,
                                              !.printed = IsTrue(val),
                                              !.report = Some(rep)]

-----------------------------------------------------------------------------
(* MlModel.predict *)

\* a faulty predict that answers with no predictions when the estimator raises
predict_lenient(data) ==
    /\ phase = "constructed"
    /\ call' = PredictCall(data)
    /\ UNCHANGED <<phase, specVars, splitVars, kwargs, model, y_pred, report,
                   reconfigured>>
    /\ LET perr == PredictError(Get(model), data)
           p == IF perr # NoErr THEN <<>> ELSE ClfPredict(Get(model), data.rows)
       IN  /\ last_prediction' = Some(p)
           /\ outcome' = [NoOutcome EXCEPT !.pred = Some(p)]

\* a faulty predict that keeps the rows it is given as the test features
predict_into_test(data) ==
    /\ phase = "constructed"
    /\ call' = PredictCall(data)
    /\ UNCHANGED <<phase, specVars, dataset, x_train, y_train, y_test, kwargs,
                   model, y_pred, report, reconfigured>>
    /\ LET perr == PredictError(Get(model), data)
       IN  IF perr # NoErr
           THEN /\ outcome' = Raised(perr)
                /\ UNCHANGED <<last_prediction, x_test>>
           ELSE /\ x_test' = data.rows
                /\ last_prediction' = Some(ClfPredict(Get(model), data.rows))
                /\ outcome' = [NoOutcome EXCEPT
                                 !.pred = Some(ClfPredict(Get(model), data.rows))]

predict(data) ==
    /\ phase = "constructed"
    /\ call' = PredictCall(data)
    /\ UNCHANGED <<phase, specVars, splitVars, kwargs, model, y_pred, report,
                   reconfigured>>
    /\ LET perr == PredictError(Get(model), data)
       IN  IF perr # NoErr
           THEN /\ outcome' = Raised(perr)
                /\ UNCHANGED last_prediction
           ELSE /\ last_prediction' = Some(ClfPredict(Get(model), data.rows))
                /\ outcome' = [NoOutcome EXCEPT
                                 !.pred = Some(ClfPredict(Get(model), data.rows))]

-----------------------------------------------------------------------------

Reconfigure   == \E kw \in SetupArgs : setup(kw)
EvaluateModel == \E kw \in EvaluateKeywords, val \in EvaluateValues :
                    evaluate_model(kw, val)
Predict       == \E data \in PredictArgs : predict(data)
Constructor   == \E a \in CtorArgs : Construct(a)

Next == Constructor \/ Reconfigure \/ EvaluateModel \/ Predict

Spec == Init /\ [][Next]_vars

-----------------------------------------------------------------------------
(* Properties *)

\* the keys of a dict that the classifier of the Manager's kind does not take
Offending(kw) == DictKeys(kw) \ AcceptedParams(type)
\* the step is a call of the named method on a constructed Manager
IsCall(op) == phase = "constructed" /\ call'.op = op

\* C1: a setup call whose mapping holds at least one key the current model
\* kind does not accept raises ValueError naming every such key, and leaves
\* kwargs, model and y_pred exactly as they were, also when the mapping
\* holds accepted keys too.
C1_RejectionIsAtomic ==
    [][(IsCall("setup") /\ Offending(call'.kwargs) # {})
        => /\ outcome'.err.exc = "ValueError"
           /\ outcome'.err.keys = Offending(call'.kwargs)
           /\ kwargs' = kwargs
           /\ model' = model
           /\ y_pred' = y_pred]_vars

\* a fitted Manager has rejected a call that mixes an accepted key (with a
\* value its kwargs do not hold) with an offending one
C1_Witness ==
    /\ call.op = "setup"
    /\ reconfigured
    /\ outcome.err.msg = "Invalid kwargs found"
    /\ \E k \in DictKeys(call.kwargs) :
          k \in AcceptedParams(type) /\ kwargs[k] # call.kwargs[k]

\* C4: in every state of a constructed Manager, whatever calls were made on
\* it and however they ended, the keys of kwargs are parameter names the
\* classifier of its kind accepts.
C4_KeysAccepted ==
    phase = "constructed" => DictKeys(kwargs) \subseteq AcceptedParams(type)

\* a Manager built with initial hyperparameters has had one setup call
\* rejected for its keys and another fail while fitting
C4_Witness ==
    /\ phase = "constructed"
    /\ call.op = "setup"
    /\ outcome.err.exc = "InvalidParameterError"
    /\ Cardinality(DictKeys(kwargs)) = 2
C6_PredictUnfitted ==
    [][(IsCall("predict") /\ ~reconfigured)
        => /\ outcome'.err.exc = "NotFittedError"
           /\ IsNone(outcome'.pred)
           /\ last_prediction' = last_prediction]_vars

\* predict was given a feature frame by a Manager whose only setup call
\* failed while fitting
C6_Witness ==
    /\ call.op = "predict"
    /\ call.data.isFrame
    /\ ~reconfigured
    /\ Get(model).id = 2
    /\ outcome.err.exc = "NotFittedError"

\* C9: no call on a constructed Manager, whether it returns or raises,
\* changes the dataset or any of the four parts of the split.
C9_SplitFixed ==
    [][phase = "constructed" => UNCHANGED splitVars]_vars

\* a Manager that was reconfigured and evaluated has predicted on external
\* rows, and still holds the split of its construction
C9_Witness ==
    /\ call.op = "predict"
    /\ outcome.err = NoErr
    /\ ~IsNone(report)
    /\ Get(model).id = 3
    /\ x_test = TestPart(SelectColumns(DatasetFile, features_list.items),
                         test_size.n)
\* C2 (in the state the test sets up, after a setup call has returned):
\* evaluate_model given a value that is not a boolean raises TypeError and
\* returns no report.
C2_NonBooleanRejected ==
    (call.op = "evaluate_model" /\ reconfigured /\ call.val.t # "bool")
        => (outcome.err.exc = "TypeError" /\ IsNone(outcome.report))

\* C7: evaluate_model called with its plot keyword while y_pred is None
\* warns, sets y_pred to the model's predictions on the test split, and
\* computes, stores and returns a report.
C7_FallbackPredicts ==
    [][(IsCall("evaluate_model") /\ call'.kw = "plot" /\ IsNone(y_pred))
        => /\ outcome'.warned
           /\ outcome'.err = NoErr
           /\ y_pred' = Some(ClfPredict(Get(model), x_test))
           /\ ~IsNone(outcome'.report)
           /\ report' = outcome'.report]_vars

\* the inputs C8 calls valid
C8_ValidInput(a) ==
    /\ a.model_type.t = "str" /\ a.model_type.s \in VALID_MODELS
    /\ a.filepath.t = "str" /\ IsFile(a.filepath.s)
    /\ a.target_column.t = "str" /\ a.target_column.s # ""
    /\ a.features_list.isList /\ a.features_list.items # <<>>
    /\ \A i \in 1..Len(a.features_list.items) : a.features_list.items[i].t = "str"
    /\ a.test_size.t = "float" /\ a.test_size.n > 0 /\ a.test_size.n < 10

\* C8 (for constructor calls that pass no initial hyperparameters and name
\* only columns of the dataset or the empty string): the constructor
\* returns exactly when its input is valid, and otherwise raises one of
\* the input errors before the dataset is loaded or split and before a
\* classifier is created.
C8_ConstructValidates ==
    (call.op = "__init__" /\ call.ctor.kwargs = EmptyDict
        /\ call.ctor.features_list # PyList(<<PyStr("aspect")>>))
        => /\ (phase = "constructed") <=> C8_ValidInput(call.ctor)
           /\ (phase = "failed") =>
                 /\ outcome.err.exc \in {"ValueError", "FileNotFoundError",
                                         "TypeError"}
                 /\ IsNone(dataset)
                 /\ x_train = <<>> /\ x_test = <<>>
                 /\ IsNone(model)

\* C10: every report evaluate_model returns is the report of the
\* predictions that the current model, built from the current kwargs and
\* fitted on the train split, makes on the test split.
C10_ReportOfCurrentModel ==
    (call.op = "evaluate_model" /\ outcome.err = NoErr)
        => /\ IsFitted(Get(model))
           /\ Get(model).params = kwargs
           /\ Get(model).trained = Some(<<x_train, y_train>>)
           /\ Get(outcome.report) =
                 classification_report(y_test, ClfPredict(Get(model), x_test))

====
